---- MODULE Spec2Model ----
(***************************************************************************)
(* Model of the chat sessions (Clase 20/02 chatbot.py, Clase 20/06         *)
(* custom.py) and of the RAG application (Clase 24 database_manager.py,    *)
(* rag_chain.py).  The scripts are separate programs that share no state:  *)
(* `program` says which one is running.                                    *)
(***************************************************************************)
EXTENDS Integers, Sequences, FiniteSets, TLC

\* ---------------------------------------------------------------- bounds
MaxHistory == 2      \* max_history is drawn from 0..MaxHistory
MaxTalks == 4        \* talk() calls per run
MaxOps == 4          \* DatabaseManager / RAGChain operations per run
MaxStore == 3        \* records the store may hold
MaxBatch == 2        \* fragments per add_documents call
MaxK == 2            \* k of a similarity query
MaxText == 5         \* characters of a document ingesta.py splits
MaxChunk == 4        \* chunk_size is drawn from 1..MaxChunk
MaxFiles == 2        \* paths handed to process_files
MaxChat == 3         \* messages handled by the chat tab per run
MaxUploads == 2      \* uploads handled by the knowledge-base tab per run

\* --------------------------------------------------------------- inputs
UserTexts == {"u1", "u2"}
Replies == {"r1", "r2"}
\* ways the remote completion call can fail
Failures == {"network", "auth", "malformed"}
Outcomes == Replies \cup Failures
SystemPrompt == "sys"
APOLOGY == "Lo siento, tuve un problema para procesar tu solicitud."
NoValue == "none"

Programs ==
    {"custom", "chatbot", "rag", "consulta", "consulta_filtrada",
     "ingesta", "processor", "chat", "app", "gemini",
     "upload", "gradio", "aprueba"}

VARIABLES
    program,             \* which script is running
    max_history_tokens,  \* Chatbot.max_history_tokens (custom.py)
    system_message,      \* Chatbot.system_message (custom.py)
    messages,            \* Chatbot.messages
    sent,                \* messages= argument of the last completion request
    ret,                 \* value returned by the last call
    raised,              \* the last call ended by raising
    before,              \* Chatbot.messages when the last call started
    lastArg,             \* argument of the last call
    lastOutcome,         \* what the remote call of the last call did
    prevOutcome,         \* the same for the call before it
    calls,               \* calls made so far
    requests,            \* completion requests sent so far
    reqThisCall,         \* completion requests sent by the last call
    okCount,             \* successful exchanges so far
    store,               \* records of the Chroma collection, in insertion order
    nextId,              \* identifier the collection gives to the next record
    ops,                 \* operations of the RAG application so far
    lastOp,              \* operation that ran last
    prevMut,             \* store-changing operation completed before lastMut
    lastMut,             \* store-changing operation completed last
    result,              \* value returned by the last DatabaseManager operation
    prompt,              \* filled template of the last RAGChain.query
    storeBefore,         \* store when the last operation started
    lastCall,            \* the last operation: arguments and how it ended
    prevCall,            \* the operation before it
    vectordb,            \* records of the persisted store the Clase 23 scripts open
    argv,                \* sys.argv[1:] of the script
    output,              \* what the script printed
    results,             \* the records the search of the script returned
    fs,                  \* the files: what a loader gets when it reads a path
    chunk_size,          \* chunk_size of the text splitter
    chunk_overlap,       \* chunk_overlap of the text splitter
    procCall,            \* the last DocumentProcessor call and its argument
    procResult,          \* what the last DocumentProcessor call produced
    chat_history,        \* the (message, reply) pairs Gradio keeps for the chat
    historyBefore,       \* chat_history when the last handler started
    chatCall,            \* the last chat handler call and how it went
    firstPrompt,         \* per message, the prompt sent the first time
    loop,                \* the read-eval-print loop: "reading" or "ended"
    lastLine,            \* the line on which the loop ended
    uploadCall,          \* the last handle_file_upload call and its report
    clearPc,             \* where the running clear_all_documents stands
    clearCount,          \* its local variable count
    clearIds,            \* its local variable all_ids
    clearRemoved,        \* records its delete took out of the collection
    clearResult,         \* the dictionary it returned
    connection           \* the MySQL connection of test_connection and its run

chatVars == <<max_history_tokens, system_message, messages, sent, ret, raised,
              before, lastArg, lastOutcome, prevOutcome, calls, requests,
              reqThisCall, okCount>>
ragVars == <<store, nextId, ops, lastOp, prevMut, lastMut, result, prompt,
             storeBefore, lastCall, prevCall>>
scriptVars == <<vectordb, argv, output, results>>
procVars == <<fs, chunk_size, chunk_overlap, procCall, procResult>>
appVars == <<chat_history, historyBefore, chatCall, firstPrompt>>
replVars == <<loop, lastLine>>
clearVars == <<clearPc, clearCount, clearIds, clearRemoved, clearResult>>
moreVars == <<replVars, uploadCall, clearVars, connection>>
otherVars == <<scriptVars, procVars, appVars, moreVars>>
vars == <<program, chatVars, ragVars, otherVars>>

\* ------------------------------------------------------------ chat messages
SystemMsg(p) == [role |-> "system", content |-> p]
UserMsg(m) == [role |-> "user", content |-> m]
AssistantMsg(r) == [role |-> "assistant", content |-> r]

\* Python's s[-n:]; -0 is 0, so n = 0 gives the whole list
SliceLast(s, n) ==
    IF n = 0 \/ n >= Len(s) THEN s ELSE SubSeq(s, Len(s) - n + 1, Len(s))

\* Python's list.pop() on a non-empty list
Pop(s) == SubSeq(s, 1, Len(s) - 1)

\* a window that forgets to put the system message back
WindowNoSystem(msgs) ==
    IF Len(msgs) > max_history_tokens + 1
    THEN SliceLast(msgs, max_history_tokens)
    ELSE msgs

\* a window that keeps the oldest messages instead of the newest
WindowOldest(msgs) ==
    IF Len(msgs) > max_history_tokens + 1
    THEN <<system_message>> \o SubSeq(msgs, 2, max_history_tokens + 1)
    ELSE msgs

\* the sliding window of custom.py
Window(msgs) ==
    IF Len(msgs) > max_history_tokens + 1
    THEN <<system_message>> \o SliceLast(msgs, max_history_tokens)
    ELSE msgs

\* a handler that catches the API's own errors only
CaughtApiErrorsOnly(f) == f # "malformed"

\* `except Exception` of custom.py: every failure of the try block is caught
Caught(f) == f \in Failures

\* ------------------------------------------------ Clase 23 query scripts
Frags == {"f1", "f2"}
Questions == {"q1", "q2"}
\* the files ingesta.py reads; a record's metadata 'source' names its file
Sources == {"datos.txt", "documento.pdf"}
\* k of the similarity_search calls of consulta.py and consulta_filtrada.py
SCRIPT_K == 3
\* command lines: no argument, a query, a query and a source
QueryArgs == Questions \cup {""}
SourceArgs == Sources \cup {""}
Argvs ==
    {<<>>} \cup {<<q>> : q \in QueryArgs}
           \cup {<<q, f>> : q \in QueryArgs, f \in SourceArgs}
\* stores a run of the scripts can find in db_chroma
Persisted ==
    UNION {{[i \in 1..n |->
                [id |-> i, text |-> c[i][1], source |-> c[i][2]]] :
            c \in [1..n -> Frags \X Sources]} : n \in 0..(MaxStore + 1)}

\* ------------------------------------------- RecursiveCharacterTextSplitter
\* texts are sequences of characters
NL == "\n"
Whitespace == {" ", NL}
\* separators of RecursiveCharacterTextSplitter, tried in this order
Separators == << <<NL, NL>>, <<NL>>, <<" ">>, <<>> >>

\* sep occurs in text at position i
IsAt(text, sep, i) ==
    /\ i + Len(sep) - 1 <= Len(text)
    /\ SubSeq(text, i, i + Len(sep) - 1) = sep
Contains(text, sep) == \E i \in 1..Len(text) : IsAt(text, sep, i)
FirstAt(text, sep) ==
    CHOOSE i \in 1..Len(text) :
        IsAt(text, sep, i) /\ \A j \in 1..(i - 1) : ~IsAt(text, sep, j)

RECURSIVE RegexSplit(_, _)
\* re.split(sep, text) for a literal, non-empty sep
RegexSplit(text, sep) ==
    IF ~Contains(text, sep) THEN <<text>>
    ELSE LET i == FirstAt(text, sep) IN
         <<SubSeq(text, 1, i - 1)>>
            \o RegexSplit(SubSeq(text, i + Len(sep), Len(text)), sep)

\* _split_text_with_regex with keep_separator=True: every separator stays at
\* the start of the piece that follows it; empty pieces are dropped
SplitWithRegex(text, sep) ==
    LET pieces ==
            IF sep = <<>>
            THEN [i \in 1..Len(text) |-> <<text[i]>>]
            ELSE LET p == RegexSplit(text, sep) IN
                 <<p[1]>> \o [i \in 1..(Len(p) - 1) |-> sep \o p[i + 1]]
    IN SelectSeq(pieces, LAMBDA s : s # <<>>)

RECURSIVE LStrip(_)
LStrip(t) == IF t # <<>> /\ Head(t) \in Whitespace THEN LStrip(Tail(t)) ELSE t
RECURSIVE RStrip(_)
RStrip(t) ==
    IF t # <<>> /\ t[Len(t)] \in Whitespace
    THEN RStrip(SubSeq(t, 1, Len(t) - 1)) ELSE t

\* a splitter built with strip_whitespace=False
StripNothing(t) == t

\* str.strip()
Strip(t) == LStrip(RStrip(t))

RECURSIVE Concat(_)
\* "".join(pieces)
Concat(pieces) ==
    IF pieces = <<>> THEN <<>> ELSE Head(pieces) \o Concat(Tail(pieces))

\* _join_docs: the pieces joined and stripped, as a list of zero or one text
JoinDocs(pieces) ==
    LET text == Strip(Concat(pieces)) IN
    IF text = <<>> THEN <<>> ELSE <<text>>

RECURSIVE TotalLen(_)
TotalLen(pieces) ==
    IF pieces = <<>> THEN 0 ELSE Len(Head(pieces)) + TotalLen(Tail(pieces))

RECURSIVE DropOverlapEager(_, _, _, _)
\* a loop that also drops a tail of exactly chunk_overlap characters
DropOverlapEager(cur, len, size, overlap) ==
    IF \/ TotalLen(cur) >= overlap /\ TotalLen(cur) > 0
       \/ (TotalLen(cur) + len > size /\ TotalLen(cur) > 0)
    THEN DropOverlapEager(Tail(cur), len, size, overlap)
    ELSE cur

RECURSIVE DropOverlap(_, _, _, _)
\* the while loop of _merge_splits: pieces are dropped from the front of the
\* chunk just emitted until what is left fits the overlap and leaves room
\* for the next piece, whose length is len
DropOverlap(cur, len, size, overlap) ==
    IF \/ TotalLen(cur) > overlap
       \/ (TotalLen(cur) + len > size /\ TotalLen(cur) > 0)
    THEN DropOverlap(Tail(cur), len, size, overlap)
    ELSE cur

RECURSIVE MergeFrom(_, _, _, _, _)
\* the for loop of _merge_splits from piece i on; cur is current_doc
MergeFrom(splits, i, cur, size, overlap) ==
    IF i > Len(splits) THEN JoinDocs(cur)
    ELSE LET d == splits[i] IN
         IF TotalLen(cur) + Len(d) > size /\ cur # <<>>
         THEN JoinDocs(cur)
                \o MergeFrom(splits, i + 1,
                             Append(DropOverlap(cur, Len(d), size, overlap), d),
                             size, overlap)
         ELSE MergeFrom(splits, i + 1, Append(cur, d), size, overlap)

\* _merge_splits with the empty separator keep_separator=True passes to it
MergeSplits(splits, size, overlap) == MergeFrom(splits, 1, <<>>, size, overlap)

\* the separator _split_text picks: the first that is "" or occurs in text
PickSeparator(text, seps) ==
    LET hits == {i \in 1..Len(seps) : seps[i] = <<>> \/ Contains(text, seps[i])}
    IN IF hits = {} THEN Len(seps)
       ELSE CHOOSE i \in hits : \A j \in hits : i <= j

RECURSIVE SplitText(_, _, _, _)
RECURSIVE SplitPieces(_, _, _, _, _, _)
\* the loop of _split_text over the pieces, from piece i on; good is
\* _good_splits, rest is new_separators
SplitPieces(splits, i, good, rest, size, overlap) ==
    IF i > Len(splits)
    THEN (IF good = <<>> THEN <<>> ELSE MergeSplits(good, size, overlap))
    ELSE LET s == splits[i] IN
         IF Len(s) < size
         THEN SplitPieces(splits, i + 1, Append(good, s), rest, size, overlap)
         ELSE (IF good = <<>> THEN <<>> ELSE MergeSplits(good, size, overlap))
                \o (IF rest = <<>> THEN <<s>>
                    ELSE SplitText(s, rest, size, overlap))
                \o SplitPieces(splits, i + 1, <<>>, rest, size, overlap)

\* RecursiveCharacterTextSplitter._split_text
SplitText(text, seps, size, overlap) ==
    LET k == PickSeparator(text, seps)
        found == seps[k] # <<>> /\ Contains(text, seps[k])
        rest == IF found THEN SubSeq(seps, k + 1, Len(seps)) ELSE <<>>
    IN SplitPieces(SplitWithRegex(text, seps[k]), 1, <<>>, rest, size, overlap)

\* ------------------------------------------------------ files and documents
Alphabet == {"a", "b", " ", NL}
\* every text of at most MaxText characters
DocTexts == UNION {[1..n -> Alphabet] : n \in 0..MaxText}
\* the file ingesta.py loads
TXT_SOURCE == "datos.txt"
\* paths handed to the DocumentProcessor: d.txt, p.pdf, u.TXT, w.doc
PathTxt == <<"d", ".", "t", "x", "t">>
PathPdf == <<"p", ".", "p", "d", "f">>
PathUpper == <<"u", ".", "T", "X", "T">>
PathDoc == <<"w", ".", "d", "o", "c">>
Paths == {PathTxt, PathPdf, PathUpper, PathDoc}
\* a file a loader cannot read
Unreadable == [readable |-> FALSE, texts |-> <<>>]
\* a file a loader reads as the documents with the texts `texts`
Readable(texts) == [readable |-> TRUE, texts |-> texts]
\* texts of the files the DocumentProcessor is given
FileTexts == {<<>>, <<"a", "b">>, <<"a", "b", " ", "a">>}
\* what reading a path gives: an error, or the text of each document
\* a text file is one document, a PDF one document per page
FileSystems ==
    {f \in [Paths -> {Unreadable, Readable(<<>>),
                      Readable(<<<<"a", "b">>, <<>>>>),
                      Readable(<<<<>>>>),
                      Readable(<<<<"a", "b", " ", "a">>>>)}] :
        /\ f[PathTxt].readable => Len(f[PathTxt].texts) = 1
        /\ f[PathPdf].readable => Len(f[PathPdf].texts) # 1
        /\ f[PathUpper] = Readable(<<<<>>>>)
        /\ f[PathDoc] = Readable(<<<<"a", "b", " ", "a">>>>)}
\* chunk_size / chunk_overlap pairs a splitter accepts, overlap < size
ChunkConfigs ==
    {c \in (1..MaxChunk) \X (0..MaxChunk) : c[2] < c[1]}

\* a LangChain Document
Document(text, source) == [page_content |-> text, source |-> source]

\* str.endswith
EndsWith(path, suffix) ==
    /\ Len(path) >= Len(suffix)
    /\ SubSeq(path, Len(path) - Len(suffix) + 1, Len(path)) = suffix

\* a load_file that reads every other file as text
LoaderForAnything(path) ==
    IF EndsWith(path, <<".", "p", "d", "f">>) THEN "PyPDFLoader"
    ELSE "TextLoader"

\* the loader load_file picks from the extension, if any
LoaderFor(path) ==
    IF EndsWith(path, <<".", "p", "d", "f">>) THEN "PyPDFLoader"
    ELSE IF EndsWith(path, <<".", "t", "x", "t">>) THEN "TextLoader"
    ELSE NoValue

\* DocumentProcessor.load_file on the files `files`
load_file(path, files) ==
    LET loader == LoaderFor(path) IN
    IF loader = NoValue
    THEN [raised |-> TRUE, error |-> "ValueError", loader |-> NoValue,
          documents |-> <<>>]
    ELSE IF ~files[path].readable
    THEN [raised |-> TRUE, error |-> "IOError", loader |-> loader,
          documents |-> <<>>]
    ELSE [raised |-> FALSE, error |-> NoValue, loader |-> loader,
          documents |-> [i \in 1..Len(files[path].texts) |->
                            Document(files[path].texts[i], path)]]

RECURSIVE load_multiple_files_stopping(_, _)
\* a loop that gives up at the first file that fails
load_multiple_files_stopping(file_paths, files) ==
    IF file_paths = <<>>
    THEN [all_documents |-> <<>>, failed_files |-> <<>>]
    ELSE LET first == load_file(Head(file_paths), files)
             others == load_multiple_files_stopping(Tail(file_paths), files)
         IN IF first.raised
            THEN [all_documents |-> <<>>,
                  failed_files |-> <<Head(file_paths)>>]
            ELSE [all_documents |-> first.documents \o others.all_documents,
                  failed_files |-> others.failed_files]

RECURSIVE load_multiple_files(_, _)
\* DocumentProcessor.load_multiple_files
load_multiple_files(file_paths, files) ==
    IF file_paths = <<>>
    THEN [all_documents |-> <<>>, failed_files |-> <<>>]
    ELSE LET first == load_file(Head(file_paths), files)
             others == load_multiple_files(Tail(file_paths), files)
         IN IF first.raised
            THEN [all_documents |-> others.all_documents,
                  failed_files |-> <<Head(file_paths)>> \o others.failed_files]
            ELSE [all_documents |-> first.documents \o others.all_documents,
                  failed_files |-> others.failed_files]

\* TextSplitter.create_documents for one document: a fragment per chunk,
\* each with the metadata of the document
Fragments(doc, size, overlap) ==
    LET chunks == SplitText(doc.page_content, Separators, size, overlap) IN
    [i \in 1..Len(chunks) |-> Document(chunks[i], doc.source)]

RECURSIVE split_documents(_, _, _)
\* DocumentProcessor.split_documents
split_documents(documents, size, overlap) ==
    IF documents = <<>> THEN <<>>
    ELSE Fragments(Head(documents), size, overlap)
            \o split_documents(Tail(documents), size, overlap)

\* DocumentProcessor.process_files
process_files(file_paths, files, size, overlap) ==
    LET loaded == load_multiple_files(file_paths, files)
        documents == loaded.all_documents
        failed_files == loaded.failed_files
        splits == split_documents(documents, size, overlap)
    IN
    IF file_paths = <<>>
    THEN [success |-> FALSE, splits |-> <<>>, document_count |-> 0,
          split_count |-> 0, failed_files |-> <<>>]
    ELSE IF documents = <<>>
    THEN [success |-> FALSE, splits |-> <<>>, document_count |-> 0,
          split_count |-> 0, failed_files |-> failed_files]
    ELSE IF splits = <<>>
    THEN [success |-> FALSE, splits |-> <<>>,
          document_count |-> Len(documents), split_count |-> 0,
          failed_files |-> failed_files]
    ELSE [success |-> TRUE, splits |-> splits,
          document_count |-> Len(documents), split_count |-> Len(splits),
          failed_files |-> failed_files]

\* one call of an operation of the RAG application: its name, how the
\* persistence layer answered, the fragments or the k it was given, and
\* whether it called collection.delete
Call(op, o, F, k, deleted) ==
    [op |-> op, outcome |-> o, batch |-> F, k |-> k, deleted |-> deleted]
NoCall == Call(NoValue, NoValue, <<>>, 0, FALSE)

\* ------------------------------------------- inputs of the Clase 24 chat
\* messages typed into the chat box
AppMessages == {"", " ", "q1", " q1", "q2"}
\* the characters of a message
Chars(m) ==
    CASE m = "" -> <<>>
      [] m = " " -> <<" ">>
      [] m = "q1" -> <<"q", "1">>
      [] m = " q1" -> <<" ", "q", "1">>
      [] m = "q2" -> <<"q", "2">>
\* stores the chat can find when it starts
ChatStores ==
    {[i \in 1..n |-> [id |-> i, text |-> IF i = 2 THEN "f1" ELSE "f2",
                      source |-> "datos.txt"]] : n \in 0..2}

\* ---------------------------------------------------------------- Init
Init ==
    /\ program \in Programs
    /\ \E mh \in 0..MaxHistory :
          max_history_tokens = IF program = "custom" THEN mh * 2 ELSE 0
    /\ system_message = SystemMsg(SystemPrompt)
    /\ messages = <<SystemMsg(SystemPrompt)>>
    /\ sent = <<>>
    /\ ret = NoValue
    /\ raised = FALSE
    /\ before = <<>>
    /\ lastArg = NoValue
    /\ lastOutcome = NoValue
    /\ prevOutcome = NoValue
    /\ calls = 0
    /\ requests = 0
    /\ reqThisCall = 0
    /\ okCount = 0
    /\ store \in (IF program \in {"chat", "app"} THEN ChatStores ELSE {<<>>})
    /\ nextId = Len(store) + 1
    /\ ops = 0
    /\ lastOp = NoValue
    /\ prevMut = NoValue
    /\ lastMut = NoValue
    /\ result = [kind |-> NoValue]
    /\ prompt = [kind |-> NoValue]
    /\ storeBefore = <<>>
    /\ lastCall = NoCall
    /\ prevCall = NoCall
    /\ vectordb \in (IF program \in {"consulta", "consulta_filtrada"}
                     THEN Persisted ELSE {<<>>})
    /\ argv = <<>>
    /\ output = NoValue
    /\ results = <<>>
    /\ fs \in (IF program = "ingesta"
               THEN [{TXT_SOURCE} ->
                        {Unreadable} \cup {Readable(<<t>>) : t \in DocTexts}]
               ELSE IF program \in {"processor", "upload"} THEN FileSystems
               ELSE {<<>>})
    /\ \E c \in (IF program \in {"ingesta", "processor"} THEN ChunkConfigs
                 ELSE IF program = "upload" THEN {<<MaxChunk, 1>>}
                 ELSE {<<0, 0>>}) :
          /\ chunk_size = c[1]
          /\ chunk_overlap = c[2]
    /\ procCall = [op |-> NoValue]
    /\ procResult = [kind |-> NoValue]
    /\ chat_history = <<>>
    /\ historyBefore = <<>>
    /\ chatCall = [op |-> NoValue]
    /\ firstPrompt = [m \in AppMessages |-> [kind |-> NoValue]]
    /\ loop = "reading"
    /\ lastLine = NoValue
    /\ uploadCall = [op |-> NoValue]
    /\ clearPc = "idle"
    /\ clearCount = 0
    /\ clearIds = {}
    /\ clearRemoved = 0
    /\ clearResult = [kind |-> NoValue]
    /\ connection = [run |-> FALSE]

\* ------------------------------------------------- Clase 20/06 Chatbot.talk
talk(m, o) ==
    LET windowed == Window(Append(messages, UserMsg(m))) IN
    /\ program = "custom"
    /\ calls < MaxTalks
    /\ sent' = windowed
    /\ IF o \in Replies
       THEN /\ messages' = Append(windowed, AssistantMsg(o))
            /\ ret' = o
            /\ raised' = FALSE
       ELSE IF Caught(o)
       THEN /\ messages' = Pop(windowed)
            /\ ret' = APOLOGY
            /\ raised' = FALSE
       ELSE /\ messages' = windowed
            /\ ret' = NoValue
            /\ raised' = TRUE
    /\ before' = messages
    /\ lastArg' = m
    /\ lastOutcome' = o
    /\ prevOutcome' = lastOutcome
    /\ calls' = calls + 1
    /\ requests' = requests + 1
    /\ reqThisCall' = 1
    /\ okCount' = IF o \in Replies THEN okCount + 1 ELSE okCount
    /\ UNCHANGED <<program, otherVars, max_history_tokens, system_message, ragVars>>

\* ------------------------------------------------ Clase 20/02 Chatbot.talk
basic_talk(m, o) ==
    LET appended == Append(messages, UserMsg(m)) IN
    /\ program = "chatbot"
    /\ calls < MaxTalks
    /\ sent' = appended
    /\ IF o \in Replies
       THEN /\ messages' = Append(appended, AssistantMsg(o))
            /\ ret' = o
            /\ raised' = FALSE
       ELSE /\ messages' = appended
            /\ ret' = NoValue
            /\ raised' = TRUE
    /\ before' = messages
    /\ lastArg' = m
    /\ lastOutcome' = o
    /\ prevOutcome' = lastOutcome
    /\ calls' = calls + 1
    /\ requests' = requests + 1
    /\ reqThisCall' = 1
    /\ okCount' = IF o \in Replies THEN okCount + 1 ELSE okCount
    /\ UNCHANGED <<program, otherVars, max_history_tokens, system_message, ragVars>>

\* ------------------------------------------------------- the vector store
\* non-empty lists of fragments handed to add_documents
Batches == UNION {[1..n -> Frags] : n \in 1..MaxBatch}
\* ways a call into the persistence layer ends
StoreOutcomes == {"ok", "error"}
QUERY_ERROR == "Lo siento, ocurrió un error al procesar tu pregunta"

\* distance between the embeddings of a stored text and of a query
Distance(t, q) ==
    IF (t = "f1" /\ q = "q1") \/ (t = "f2" /\ q = "q2") THEN 0 ELSE 1

Remove(s, i) == SubSeq(s, 1, i - 1) \o SubSeq(s, i + 1, Len(s))

\* index of the nearest record; ties go to the record inserted first
Nearest(s, q) ==
    CHOOSE i \in 1..Len(s) :
        \A j \in 1..Len(s) :
            \/ Distance(s[i].text, q) < Distance(s[j].text, q)
            \/ Distance(s[i].text, q) = Distance(s[j].text, q) /\ i <= j

RECURSIVE similarity_search_strict(_, _, _)
\* a search that gives up when the store holds fewer than k records
similarity_search_strict(s, q, k) ==
    IF k = 0 \/ Len(s) < k THEN <<>>
    ELSE LET i == Nearest(s, q) IN
         <<s[i]>> \o similarity_search_strict(Remove(s, i), q, k - 1)

RECURSIVE similarity_search(_, _, _)
\* what the retriever built by get_retriever(k) returns for query q
similarity_search(s, q, k) ==
    IF k = 0 \/ s = <<>> THEN <<>>
    ELSE LET i == Nearest(s, q) IN
         <<s[i]>> \o similarity_search(Remove(s, i), q, k - 1)

\* a get() that returns the identifier of the first record only
IdsFirstOnly(s) == IF s = <<>> THEN {} ELSE {s[1].id}

\* collection.get()['ids']
Ids(s) == {s[i].id : i \in 1..Len(s)}

\* a delete that is handed the first identifier instead of the list
DeleteFirstId(s, ids) ==
    SelectSeq(s, LAMBDA r : \E i \in ids : r.id > i)

\* collection.delete(ids=...)
Delete(s, ids) == SelectSeq(s, LAMBDA r : r.id \notin ids)

\* the dictionary get_stats builds from collection.count()
Stats(count) ==
    [kind |-> "stats", count |-> count,
     status |-> IF count = 0 THEN "empty" ELSE "active"]

RagStep(op) ==
    /\ program = "rag"
    /\ ops < MaxOps
    /\ ops' = ops + 1
    /\ lastOp' = op
    /\ storeBefore' = store
    /\ prevCall' = lastCall

\* an add that skips the fragments whose text is already stored
add_documents_upsert(F, o) ==
    LET texts == {store[i].text : i \in 1..Len(store)}
        fresh == SelectSeq(F, LAMBDA f : f \notin texts)
    IN
    /\ RagStep("add_documents")
    /\ Len(store) + Len(F) <= MaxStore
    /\ lastCall' = Call("add_documents", o, F, 0, FALSE)
    /\ IF o = "ok"
       THEN /\ store' = store \o [i \in 1..Len(fresh) |->
                                    [id |-> nextId + i - 1, text |-> fresh[i]]]
            /\ nextId' = nextId + Len(fresh)
            /\ result' = [kind |-> "added", count |-> Len(F)]
            /\ raised' = FALSE
            /\ prevMut' = lastMut
            /\ lastMut' = "add_documents"
       ELSE /\ result' = [kind |-> NoValue]
            /\ raised' = TRUE
            /\ UNCHANGED <<store, nextId, prevMut, lastMut>>
    /\ UNCHANGED <<program, otherVars, max_history_tokens, system_message, messages,
                   sent, ret, before, lastArg, lastOutcome, prevOutcome,
                   calls, requests, reqThisCall, okCount, prompt>>

\* ------------------------------------------ DatabaseManager.add_documents
add_documents(F, o) ==
    /\ RagStep("add_documents")
    /\ Len(store) + Len(F) <= MaxStore
    /\ lastCall' = Call("add_documents", o, F, 0, FALSE)
    /\ IF o = "ok"
       THEN /\ store' = store \o [i \in 1..Len(F) |->
                                    [id |-> nextId + i - 1, text |-> F[i]]]
            /\ nextId' = nextId + Len(F)
            /\ result' = [kind |-> "added", count |-> Len(F)]
            /\ raised' = FALSE
            /\ prevMut' = lastMut
            /\ lastMut' = "add_documents"
       ELSE /\ result' = [kind |-> NoValue]
            /\ raised' = TRUE
            /\ UNCHANGED <<store, nextId, prevMut, lastMut>>
    /\ UNCHANGED <<program, otherVars, max_history_tokens, system_message, messages,
                   sent, ret, before, lastArg, lastOutcome, prevOutcome,
                   calls, requests, reqThisCall, okCount, prompt>>

\* a get_stats whose handler lets the exception out
get_stats_raising(o) ==
    /\ RagStep("get_stats")
    /\ lastCall' = Call("get_stats", o, <<>>, 0, FALSE)
    /\ result' = IF o = "ok" THEN Stats(Len(store)) ELSE [kind |-> NoValue]
    /\ raised' = (o # "ok")
    /\ UNCHANGED <<program, otherVars, max_history_tokens, system_message, messages,
                   sent, ret, before, lastArg, lastOutcome, prevOutcome,
                   calls, requests, reqThisCall, okCount, prompt,
                   store, nextId, prevMut, lastMut>>

\* ---------------------------------------------- DatabaseManager.get_stats
get_stats(o) ==
    /\ RagStep("get_stats")
    /\ lastCall' = Call("get_stats", o, <<>>, 0, FALSE)
    /\ result' = IF o = "ok"
                 THEN Stats(Len(store))
                 ELSE [kind |-> "stats", count |-> 0, status |-> "error"]
    /\ raised' = FALSE
    /\ UNCHANGED <<program, otherVars, max_history_tokens, system_message, messages,
                   sent, ret, before, lastArg, lastOutcome, prevOutcome,
                   calls, requests, reqThisCall, okCount, prompt,
                   store, nextId, prevMut, lastMut>>

\* a clear that counts the records after deleting them
clear_counting_late(o) ==
    LET all_ids == Ids(store)
        after == IF Len(store) = 0 \/ all_ids = {}
                 THEN store
                 ELSE Delete(store, all_ids)
    IN
    /\ RagStep("clear_all_documents")
    /\ lastCall' = Call("clear_all_documents", o, <<>>, 0,
                        o = "ok" /\ Len(store) # 0 /\ all_ids # {})
    /\ IF o = "ok"
       THEN /\ result' = [kind |-> "clear", success |-> TRUE,
                          deleted_count |-> Len(after)]
            /\ store' = after
            /\ prevMut' = lastMut
            /\ lastMut' = "clear_all_documents"
       ELSE /\ result' = [kind |-> "clear", success |-> FALSE,
                          deleted_count |-> 0]
            /\ UNCHANGED <<store, prevMut, lastMut>>
    /\ raised' = FALSE
    /\ UNCHANGED <<program, otherVars, max_history_tokens, system_message, messages,
                   sent, ret, before, lastArg, lastOutcome, prevOutcome,
                   calls, requests, reqThisCall, okCount, prompt, nextId>>

\* ------------------------------------ DatabaseManager.clear_all_documents
clear_all_documents(o) ==
    LET count == Len(store)
        all_ids == Ids(store)
    IN
    /\ RagStep("clear_all_documents")
    /\ lastCall' = Call("clear_all_documents", o, <<>>, 0,
                        o = "ok" /\ count # 0 /\ all_ids # {})
    /\ IF o = "ok"
       THEN /\ result' = [kind |-> "clear", success |-> TRUE,
                          deleted_count |-> count]
            /\ store' = IF count = 0 \/ all_ids = {}
                        THEN store
                        ELSE Delete(store, all_ids)
            /\ prevMut' = lastMut
            /\ lastMut' = "clear_all_documents"
       ELSE /\ result' = [kind |-> "clear", success |-> FALSE,
                          deleted_count |-> 0]
            /\ UNCHANGED <<store, prevMut, lastMut>>
    /\ raised' = FALSE
    /\ UNCHANGED <<program, otherVars, max_history_tokens, system_message, messages,
                   sent, ret, before, lastArg, lastOutcome, prevOutcome,
                   calls, requests, reqThisCall, okCount, prompt, nextId>>

\* ------------------- DatabaseManager.get_retriever(k), then a search for q
retrieve(q, k) ==
    /\ RagStep("retrieve")
    /\ lastCall' = Call("retrieve", "ok", <<>>, k, FALSE)
    /\ result' = [kind |-> "docs", docs |-> similarity_search(store, q, k)]
    /\ raised' = FALSE
    /\ UNCHANGED <<program, otherVars, max_history_tokens, system_message, messages,
                   sent, ret, before, lastArg, lastOutcome, prevOutcome,
                   calls, requests, reqThisCall, okCount, prompt,
                   store, nextId, prevMut, lastMut>>

\* similarity_search(..., filter={"source": f}): exact match on the metadata
FilterBySource(s, f) == SelectSeq(s, LAMBDA r : r.source = f)

\* what main() prints for the records a search returned
Report(found) == IF found = <<>> THEN "no_results" ELSE "results"

\* ------------------------------------------------------ consulta.py, a run
consulta(args) ==
    LET found == similarity_search(vectordb, args[1], SCRIPT_K) IN
    /\ program = "consulta"
    /\ output = NoValue
    /\ Len(args) <= 1
    /\ argv' = args
    /\ IF Len(args) = 0
       THEN output' = "usage" /\ results' = <<>>
       ELSE IF args[1] = ""
       THEN output' = "no_query" /\ results' = <<>>
       ELSE output' = Report(found) /\ results' = found
    /\ UNCHANGED <<program, chatVars, ragVars, vectordb, procVars, appVars,
                   moreVars>>

\* --------------------------------------------- consulta_filtrada.py, a run
consulta_filtrada(args) ==
    LET query_text == args[1]
        source_filter == IF Len(args) > 1 THEN args[2] ELSE NoValue
        \* `if source_filter:` is false for None and for the empty string
        found == IF source_filter \notin {NoValue, ""}
                 THEN similarity_search(FilterBySource(vectordb, source_filter),
                                        query_text, SCRIPT_K)
                 ELSE similarity_search(vectordb, query_text, SCRIPT_K)
    IN
    /\ program = "consulta_filtrada"
    /\ output = NoValue
    /\ argv' = args
    /\ IF Len(args) = 0
       THEN output' = "usage" /\ results' = <<>>
       ELSE IF query_text = ""
       THEN output' = "no_query" /\ results' = <<>>
       ELSE output' = Report(found) /\ results' = found
    /\ UNCHANGED <<program, chatVars, ragVars, vectordb, procVars, appVars,
                   moreVars>>

\* a query that invokes the chain a second time when the first attempt fails
query_retry(question, k, o) ==
    LET docs == similarity_search(store, question, k) IN
    /\ RagStep("query")
    /\ lastCall' = Call("query", o, <<>>, k, FALSE)
    /\ IF o = "error"
       THEN /\ prompt' = [kind |-> NoValue]
            /\ requests' = requests
            /\ reqThisCall' = 0
       ELSE /\ prompt' = [kind |-> "prompt", context |-> docs,
                          question |-> question]
            /\ requests' = requests + (IF o \in Replies THEN 1 ELSE 2)
            /\ reqThisCall' = IF o \in Replies THEN 1 ELSE 2
    /\ ret' = IF o \in Replies THEN o ELSE QUERY_ERROR
    /\ raised' = FALSE
    /\ lastArg' = question
    /\ lastOutcome' = o
    /\ prevOutcome' = lastOutcome
    /\ calls' = calls + 1
    /\ okCount' = IF o \in Replies THEN okCount + 1 ELSE okCount
    /\ UNCHANGED <<program, otherVars, max_history_tokens, system_message, messages,
                   sent, before, store, nextId, prevMut, lastMut, result>>

\* ----------------------------------------------------------- RAGChain.query
\* o: a reply of the completion backend, a failure of the completion call,
\* or "error" when the retrieval step raises before any request is sent
query(question, k, o) ==
    LET docs == similarity_search(store, question, k) IN
    /\ RagStep("query")
    /\ lastCall' = Call("query", o, <<>>, k, FALSE)
    /\ IF o = "error"
       THEN /\ prompt' = [kind |-> NoValue]
            /\ requests' = requests
            /\ reqThisCall' = 0
       ELSE /\ prompt' = [kind |-> "prompt", context |-> docs,
                          question |-> question]
            /\ requests' = requests + 1
            /\ reqThisCall' = 1
    /\ ret' = IF o \in Replies THEN o ELSE QUERY_ERROR
    /\ raised' = FALSE
    /\ lastArg' = question
    /\ lastOutcome' = o
    /\ prevOutcome' = lastOutcome
    /\ calls' = calls + 1
    /\ okCount' = IF o \in Replies THEN okCount + 1 ELSE okCount
    /\ UNCHANGED <<program, otherVars, max_history_tokens, system_message, messages,
                   sent, before, store, nextId, prevMut, lastMut, result>>

\* ------------------------------------------------- the chat of Clase 24
\* default k of RAGChain.query
TOP_K_DOCUMENTS == 5
\* k of the retriever respond_chat of app.py builds
RESPOND_K == 5
\* ways an invocation of the chain ends: a reply, a failure of the completion
\* call, or "error" when the retriever raises before any request is sent
ChainOutcomes == Outcomes \cup {"error"}

\* a chain that answers by itself when the retriever finds nothing
chain_invoke_refusing(s, question, k, o) ==
    LET docs == similarity_search(s, question, k) IN
    IF o = "error"
    THEN [raised |-> TRUE, response |-> NoValue,
          prompt |-> [kind |-> NoValue], requests |-> 0]
    ELSE IF docs = <<>>
    THEN [raised |-> FALSE, response |-> "r1",
          prompt |-> [kind |-> NoValue], requests |-> 0]
    ELSE [raised |-> o \notin Replies,
          response |-> IF o \in Replies THEN o ELSE NoValue,
          prompt |-> [kind |-> "prompt", context |-> docs,
                      question |-> question],
          requests |-> 1]

\* rag_chain.invoke(question): retriever, prompt, llm, parser
chain_invoke(s, question, k, o) ==
    LET docs == similarity_search(s, question, k) IN
    IF o = "error"
    THEN [raised |-> TRUE, response |-> NoValue,
          prompt |-> [kind |-> NoValue], requests |-> 0]
    ELSE [raised |-> o \notin Replies,
          response |-> IF o \in Replies THEN o ELSE NoValue,
          prompt |-> [kind |-> "prompt", context |-> docs,
                      question |-> question],
          requests |-> 1]

\* RAGChain.query as the handlers call it: the value it hands back
rag_query(s, question, k, o) ==
    LET invoked == chain_invoke(s, question, k, o) IN
    IF invoked.raised
    THEN [invoked EXCEPT !.raised = FALSE, !.response = QUERY_ERROR]
    ELSE invoked

\* a validation that looks for the empty string only
IsEmptyMessageNoStrip(message) == message = ""

\* `not message or message.strip() == ""`
IsEmptyMessage(message) == message = "" \/ Strip(Chars(message)) = <<>>

\* a handler that asks the chain about the previous question as well
ChainInputFromHistory(message, history) ==
    IF history = <<>> THEN message ELSE history[Len(history)][1]

\* what the handlers hand to the chain: the message alone
ChainInput(message, history) == message

\* one call of a chat handler
ChatStep(name) ==
    /\ program = name
    /\ ops < MaxChat
    /\ ops' = ops + 1
    /\ historyBefore' = chat_history
    /\ UNCHANGED <<program, max_history_tokens, system_message, messages,
                   sent, before, okCount, store, nextId, lastOp, prevMut,
                   lastMut, result, storeBefore, lastCall, prevCall,
                   scriptVars, procVars, moreVars>>

\* the bookkeeping of one call of the chain
Queried(message, o) ==
    /\ calls' = calls + 1
    /\ lastArg' = message
    /\ lastOutcome' = o
    /\ prevOutcome' = lastOutcome

\* the prompt of the request the call sent, kept the first time per message
Remember(message, answer) ==
    IF answer.requests > 0 /\ firstPrompt[message].kind = NoValue
    THEN [firstPrompt EXCEPT ![message] = answer.prompt]
    ELSE firstPrompt

\* handle_chat_message of app_refactorizado.py
handle_chat_message(message, o) ==
    LET answer == rag_query(store, ChainInput(message, chat_history),
                            TOP_K_DOCUMENTS, o)
    IN
    /\ ChatStep("chat")
    /\ raised' = FALSE
    /\ IF IsEmptyMessage(message)
       THEN /\ chatCall' = [op |-> "handle_chat_message", message |-> message,
                            outcome |-> NoValue, queried |-> FALSE,
                            requests |-> 0,
                            query_raised |-> FALSE, branch |-> "validation"]
            /\ ret' = NoValue
            /\ UNCHANGED <<chat_history, prompt, requests, reqThisCall,
                           firstPrompt, calls, lastArg, lastOutcome,
                           prevOutcome>>
       ELSE /\ chatCall' = [op |-> "handle_chat_message", message |-> message,
                            outcome |-> o, queried |-> TRUE,
                            requests |-> answer.requests,
                            query_raised |-> answer.raised,
                            branch |-> IF answer.raised
                                       THEN "except" ELSE "try"]
            /\ chat_history' = Append(chat_history,
                                      <<message, answer.response>>)
            /\ prompt' = answer.prompt
            /\ requests' = requests + answer.requests
            /\ reqThisCall' = answer.requests
            /\ ret' = answer.response
            /\ firstPrompt' = Remember(message, answer)
            /\ Queried(message, o)

\* respond_chat of app.py
respond_chat(message, o) ==
    LET answer == chain_invoke(store, ChainInput(message, chat_history),
                               RESPOND_K, o)
    IN
    /\ ChatStep("app")
    /\ chatCall' = [op |-> "respond_chat", message |-> message,
                    outcome |-> o, queried |-> TRUE,
                    requests |-> answer.requests,
                    query_raised |-> answer.raised, branch |-> "try"]
    /\ raised' = answer.raised
    /\ chat_history' = IF answer.raised THEN chat_history
                       ELSE Append(chat_history, <<message, answer.response>>)
    /\ prompt' = answer.prompt
    /\ requests' = requests + answer.requests
    /\ reqThisCall' = answer.requests
    /\ ret' = answer.response
    /\ firstPrompt' = Remember(message, answer)
    /\ Queried(message, o)

HandleChatMessage ==
    \E message \in AppMessages, o \in ChainOutcomes :
        handle_chat_message(message, o)
RespondChat ==
    \E message \in AppMessages, o \in ChainOutcomes : respond_chat(message, o)

\* ----------------- the upload and clear handlers of Gradio, interleaved
\* Gradio runs the handlers of different buttons in worker threads, so the
\* steps of clear_all_documents can interleave with an add_documents.
\* whatever the steps of a handler leave alone besides the collection
GradioFrame ==
    UNCHANGED <<program, chatVars, lastOp, prevMut, lastMut, result, prompt,
                lastCall, prevCall, scriptVars, procVars, appVars, replVars,
                uploadCall, connection>>

\* count = collection.count(), and the early return on an empty collection
ClearCount ==
    /\ program = "gradio"
    /\ clearPc = "idle"
    /\ ops < MaxOps
    /\ ops' = ops + 1
    /\ storeBefore' = store
    /\ clearCount' = Len(store)
    /\ clearIds' = {}
    /\ clearRemoved' = 0
    /\ IF Len(store) = 0
       THEN /\ clearPc' = "returned"
            /\ clearResult' = [kind |-> "clear", success |-> TRUE,
                               deleted_count |-> 0]
       ELSE /\ clearPc' = "counted"
            /\ clearResult' = [kind |-> NoValue]
    /\ GradioFrame
    /\ UNCHANGED <<store, nextId>>

\* all_ids = collection.get()['ids']
ClearGet ==
    /\ program = "gradio"
    /\ clearPc = "counted"
    /\ clearIds' = Ids(store)
    /\ clearPc' = "got"
    /\ GradioFrame
    /\ UNCHANGED <<store, nextId, ops, storeBefore, clearCount, clearRemoved,
                   clearResult>>

\* collection.delete(ids=all_ids) and the return of the result
ClearDelete ==
    /\ program = "gradio"
    /\ clearPc = "got"
    /\ store' = IF clearIds = {} THEN store ELSE Delete(store, clearIds)
    /\ clearRemoved' = Len(store) - Len(store')
    /\ clearResult' = [kind |-> "clear", success |-> TRUE,
                       deleted_count |-> clearCount]
    /\ clearPc' = "returned"
    /\ GradioFrame
    /\ UNCHANGED <<nextId, ops, storeBefore, clearCount, clearIds>>

\* the handler of the clear button is ready for the next click
ClearAgain ==
    /\ program = "gradio"
    /\ clearPc = "returned"
    /\ clearPc' = "idle"
    /\ GradioFrame
    /\ UNCHANGED <<store, nextId, ops, storeBefore, clearCount, clearIds,
                   clearRemoved, clearResult>>

\* self.vectordb.add_documents(documents) of an upload running meanwhile
ConcurrentAdd ==
    \E F \in Batches :
        /\ program = "gradio"
        /\ clearPc # "returned"
        /\ Len(store) + Len(F) <= MaxStore
        /\ store' = store \o [i \in 1..Len(F) |->
                                [id |-> nextId + i - 1, text |-> F[i]]]
        /\ nextId' = nextId + Len(F)
        /\ GradioFrame
        /\ UNCHANGED <<ops, storeBefore, clearVars>>

\* ----------------------------------------- Clase 16 aprueba.py
\* the calls of the try block, in order
TrySteps ==
    <<"connect", "get_server_info", "cursor", "execute", "fetchone">>
\* the call that raises mysql.connector.Error, if any
FailPoints == {TrySteps[i] : i \in 1..Len(TrySteps)} \cup {NoValue}

\* position of a call in the try block
StepIndex(step) == CHOOSE i \in 1..Len(TrySteps) : TrySteps[i] = step

\* the call `step` was made and returned
Returned(step, failAt) ==
    failAt = NoValue \/ StepIndex(step) < StepIndex(failAt)

\* failAt: the call of the try block that raises Error, or none;
\* alive: what connection.is_connected() says in the finally block
test_connection(failAt, alive) ==
    LET opened == Returned("connect", failAt)
        cursor == Returned("cursor", failAt)
        closing == opened /\ alive
    IN
    /\ program = "aprueba"
    /\ ops < MaxOps
    /\ ops' = ops + 1
    /\ failAt = NoValue => alive
    /\ connection' =
          [run |-> TRUE, failAt |-> failAt, opened |-> opened,
           cursor |-> cursor, alive |-> alive,
           cursor_closed |-> closing /\ cursor,
           closed |-> closing /\ cursor,
           raised |-> IF closing /\ ~cursor
                      THEN "UnboundLocalError" ELSE NoValue]
    /\ raised' = (closing /\ ~cursor)
    /\ UNCHANGED <<program, max_history_tokens, system_message, messages,
                   sent, ret, before, lastArg, lastOutcome, prevOutcome,
                   calls, requests, reqThisCall, okCount, store, nextId,
                   lastOp, prevMut, lastMut, result, prompt, storeBefore,
                   lastCall, prevCall, scriptVars, procVars, appVars,
                   replVars, uploadCall, clearVars>>

TestConnection ==
    \E failAt \in FailPoints, alive \in BOOLEAN :
        test_connection(failAt, alive)

\* ------------------------------------ the read-eval-print loops of Clase 20
\* lines typed at the prompt
Lines == UserTexts \cup {"salir", "SALIR"}
\* the characters of a line
LineChars(line) ==
    CASE line = "u1" -> <<"u", "1">>
      [] line = "u2" -> <<"u", "2">>
      [] line = "salir" -> <<"s", "a", "l", "i", "r">>
      [] line = "SALIR" -> <<"S", "A", "L", "I", "R">>
\* str.lower, a character at a time
LowerChar(c) ==
    CASE c = "S" -> "s"
      [] c = "A" -> "a"
      [] c = "L" -> "l"
      [] c = "I" -> "i"
      [] c = "R" -> "r"
      [] c = "U" -> "u"
      [] OTHER -> c
\* a comparison that does not fold the case of the line
SameCase(t) == t

\* str.lower
Lower(t) == [i \in 1..Len(t) |-> LowerChar(t[i])]

\* entrada.lower() == "salir"
IsExit(line) == Lower(LineChars(line)) = <<"s", "a", "l", "i", "r">>

\* the loop is still reading: no break, and no exception ended the script
Running == loop = "reading" /\ ~raised

\* Chatbot.talk of chatbot_gemini.py: the chat session is kept by the SDK
gemini_talk(m, o) ==
    /\ program = "gemini"
    /\ calls < MaxTalks
    /\ IF o \in Replies
       THEN ret' = o /\ raised' = FALSE
       ELSE ret' = NoValue /\ raised' = TRUE
    /\ lastArg' = m
    /\ lastOutcome' = o
    /\ prevOutcome' = lastOutcome
    /\ calls' = calls + 1
    /\ requests' = requests + 1
    /\ reqThisCall' = 1
    /\ okCount' = IF o \in Replies THEN okCount + 1 ELSE okCount
    /\ UNCHANGED <<program, otherVars, max_history_tokens, system_message,
                   messages, sent, before, ragVars>>

\* the line read is the exit command: break
Salir ==
    \E line \in Lines :
        /\ program \in {"custom", "chatbot", "gemini"}
        /\ Running
        /\ IsExit(line)
        /\ loop' = "ended"
        /\ lastLine' = line
        /\ UNCHANGED <<program, chatVars, ragVars, scriptVars, procVars,
                       appVars, uploadCall, clearVars, connection>>

\* any other line read is handed to talk()
Talk == \E m \in Lines, o \in Outcomes : Running /\ ~IsExit(m) /\ talk(m, o)
BasicTalk ==
    \E m \in Lines, o \in Outcomes : Running /\ ~IsExit(m) /\ basic_talk(m, o)
GeminiTalk ==
    \E m \in Lines, o \in Outcomes : Running /\ ~IsExit(m) /\ gemini_talk(m, o)

AddDocuments == \E F \in Batches, o \in StoreOutcomes : add_documents(F, o)
GetStats == \E o \in StoreOutcomes : get_stats(o)
ClearAllDocuments == \E o \in StoreOutcomes : clear_all_documents(o)
Retrieve == \E q \in Questions, k \in 1..MaxK : retrieve(q, k)
Query ==
    \E q \in Questions, k \in 1..MaxK, o \in Outcomes \cup {"error"} :
        query(q, k, o)

\* ------------------------------------------------------- ingesta.py, a run
\* from_documents: what Chroma.from_documents does with an empty list is not
\* decided by the script: it may create an empty store or raise
ingesta(from_documents) ==
    LET content == fs[TXT_SOURCE]
        documents == [i \in 1..Len(content.texts) |->
                         Document(content.texts[i], TXT_SOURCE)]
        splits == split_documents(documents, chunk_size, chunk_overlap)
    IN
    /\ program = "ingesta"
    /\ output = NoValue
    /\ procCall' = [op |-> "ingesta"]
    /\ IF ~content.readable
       THEN /\ raised' = TRUE
            /\ output' = "error"
            /\ procResult' = [kind |-> NoValue]
            /\ UNCHANGED vectordb
       ELSE /\ procResult' = [kind |-> "splits", documents |-> documents,
                              splits |-> splits]
            /\ IF splits = <<>> /\ from_documents = "error"
               THEN /\ raised' = TRUE
                    /\ output' = "error"
                    /\ UNCHANGED vectordb
               ELSE /\ raised' = FALSE
                    /\ output' = "created"
                    /\ vectordb' = [i \in 1..Len(splits) |->
                                       [id |-> i,
                                        text |-> splits[i].page_content,
                                        source |-> splits[i].source]]
    /\ UNCHANGED <<program, max_history_tokens, system_message, messages,
                   sent, ret, before, lastArg, lastOutcome, prevOutcome,
                   calls, requests, reqThisCall, okCount, ragVars,
                   argv, results, fs, chunk_size, chunk_overlap, appVars,
                   moreVars>>

\* ------------------------------------------- calls of the DocumentProcessor
ProcStep(op, arg, res) ==
    /\ program = "processor"
    /\ procCall' = [op |-> op, arg |-> arg]
    /\ procResult' = res
    /\ UNCHANGED <<program, chatVars, ragVars, scriptVars, appVars, moreVars,
                   fs, chunk_size, chunk_overlap>>

\* lists of at most MaxFiles paths
PathLists == UNION {[1..n -> Paths] : n \in 0..MaxFiles}
\* lists of documents handed to split_documents
DocumentLists ==
    UNION {[1..n -> {Document(t, PathPdf) : t \in FileTexts}] : n \in 0..2}

LoadFile == \E path \in Paths : ProcStep("load_file", path, load_file(path, fs))
LoadMultipleFiles ==
    \E file_paths \in PathLists :
        ProcStep("load_multiple_files", file_paths,
                 load_multiple_files(file_paths, fs))
SplitDocuments ==
    \E documents \in DocumentLists :
        ProcStep("split_documents", documents,
                 [kind |-> "splits", documents |-> documents,
                  splits |-> split_documents(documents, chunk_size,
                                             chunk_overlap)])
ProcessFiles ==
    \E file_paths \in PathLists :
        ProcStep("process_files", file_paths,
                 process_files(file_paths, fs, chunk_size, chunk_overlap))
Ingesta == \E o \in StoreOutcomes : ingesta(o)

\* ------------------------------------- handle_file_upload of Clase 24
\* stats['count'] of get_stats: the count, or 0 when counting fails
StatsCount(s, o) == IF o = "ok" THEN Len(s) ELSE 0

\* the records vectordb.add_documents makes of the fragments
Records(splits, first) ==
    [i \in 1..Len(splits) |->
        [id |-> first + i - 1, text |-> splits[i].page_content]]

\* `if not result['success']`: only a successful processing reaches the store
AddsOnSuccess(processed) == processed.success

\* oa: how add_documents ends; os: how the get_stats that follows ends
handle_file_upload(file_list, oa, os) ==
    LET processed == process_files(file_list, fs, chunk_size, chunk_overlap)
        splits == split_documents(
                      load_multiple_files(file_list, fs).all_documents,
                      chunk_size, chunk_overlap)
        added == store \o Records(splits, nextId)
    IN
    /\ program = "upload"
    /\ ops < MaxUploads
    /\ ops' = ops + 1
    /\ storeBefore' = store
    /\ IF file_list = <<>>
       THEN /\ uploadCall' = [op |-> "handle_file_upload",
                              file_list |-> file_list, report |-> "warning",
                              processed |-> FALSE, add_called |-> FALSE,
                              split_count |-> 0,
                              count |-> StatsCount(store, os)]
            /\ raised' = FALSE
            /\ UNCHANGED <<store, nextId>>
       ELSE IF ~AddsOnSuccess(processed)
       THEN /\ uploadCall' = [op |-> "handle_file_upload",
                              file_list |-> file_list, report |-> "failure",
                              processed |-> processed.success,
                              add_called |-> FALSE, split_count |-> 0,
                              count |-> StatsCount(store, os)]
            /\ raised' = FALSE
            /\ UNCHANGED <<store, nextId>>
       ELSE IF oa = "error"
       THEN /\ uploadCall' = [op |-> "handle_file_upload",
                              file_list |-> file_list, report |-> "error",
                              processed |-> processed.success,
                              add_called |-> TRUE, split_count |-> 0,
                              count |-> StatsCount(store, os)]
            /\ raised' = FALSE
            /\ UNCHANGED <<store, nextId>>
       ELSE /\ store' = added
            /\ nextId' = nextId + Len(splits)
            /\ uploadCall' = [op |-> "handle_file_upload",
                              file_list |-> file_list, report |-> "success",
                              processed |-> processed.success,
                              add_called |-> TRUE,
                              split_count |-> processed.split_count,
                              count |-> StatsCount(added, os)]
            /\ raised' = FALSE
    /\ UNCHANGED <<program, max_history_tokens, system_message, messages,
                   sent, ret, before, lastArg, lastOutcome, prevOutcome,
                   calls, requests, reqThisCall, okCount, lastOp, prevMut,
                   lastMut, result, prompt, lastCall, prevCall, scriptVars,
                   procVars, appVars, replVars, clearVars, connection>>

HandleFileUpload ==
    \E file_list \in PathLists, oa \in StoreOutcomes, os \in StoreOutcomes :
        handle_file_upload(file_list, oa, os)

Consulta == \E args \in Argvs : consulta(args)
ConsultaFiltrada == \E args \in Argvs : consulta_filtrada(args)

Next ==
    \/ HandleChatMessage
    \/ HandleFileUpload
    \/ TestConnection
    \/ ClearCount
    \/ ClearGet
    \/ ClearDelete
    \/ ClearAgain
    \/ ConcurrentAdd
    \/ RespondChat
    \/ Ingesta
    \/ LoadFile
    \/ LoadMultipleFiles
    \/ SplitDocuments
    \/ ProcessFiles
    \/ Consulta
    \/ ConsultaFiltrada
    \/ Talk
    \/ BasicTalk
    \/ GeminiTalk
    \/ Salir
    \/ AddDocuments
    \/ GetStats
    \/ ClearAllDocuments
    \/ Retrieve
    \/ Query

Spec == Init /\ [][Next]_vars

\* ------------------------------------------------------------- properties
Last(s) == s[Len(s)]
Occurrences(x, s) == Cardinality({i \in 1..Len(s) : s[i] = x})
\* the call of talk() that ran last trimmed the history
Trimmed == Len(before) + 1 > max_history_tokens + 1

\* C1: in the windowed Chatbot, whatever max_history >= 0 is and however the
\* remote calls ended, messages is non-empty and messages[0] is the system
\* message given to the constructor.
C1_SystemMessagePinned ==
    program = "custom" =>
        /\ Len(messages) >= 1
        /\ messages[1] = SystemMsg(SystemPrompt)

\* a failed call that trimmed the history, after a successful exchange
C1_Witness ==
    /\ program = "custom"
    /\ max_history_tokens >= 2
    /\ okCount >= 1
    /\ lastOutcome \in Failures
    /\ Trimmed

\* C2: in the windowed Chatbot with max_history >= 1, once more than
\* max_history exchanges succeeded, the history after talk() returned is the
\* system message followed by exactly 2*max_history messages.
C2_ExactWindowAfterReturn ==
    (/\ program = "custom"
     /\ max_history_tokens >= 2
     /\ okCount * 2 > max_history_tokens) =>
        /\ messages[1] = system_message
        /\ Len(messages) = 1 + max_history_tokens

\* C3: in the windowed Chatbot, when the remote call of talk(m) fails the
\* history is as long as before the call and the message of this call is not
\* in it, also when the window trimmed during the call.
C3_FailureRestoresLength ==
    (/\ program = "custom"
     /\ max_history_tokens >= 2
     /\ lastOutcome \in Failures) =>
        /\ Len(messages) = Len(before)
        /\ Occurrences(UserMsg(lastArg), messages)
              <= Occurrences(UserMsg(lastArg), before)

\* C4: in the windowed Chatbot with max_history >= 1, a history that holds
\* more than the system message has a user message at index 1: eviction
\* removes whole user/assistant pairs.
C4_WindowStartsWithUser ==
    (/\ program = "custom"
     /\ max_history_tokens >= 2
     /\ Len(messages) > 1) =>
        messages[2].role = "user"

\* C5: in the windowed Chatbot, for every max_history >= 0, the message list
\* of every completion request has at most 2*max_history + 1 entries.
C5_RequestWithinWindow ==
    (program = "custom" /\ calls > 0) =>
        Len(sent) <= max_history_tokens + 1

\* C6: in both Chatbot classes, when the remote call of talk(m) succeeds with
\* reply r, talk returns r and the history ends with (user, m), (assistant, r).
C6_ExchangeAppended ==
    (program \in {"custom", "chatbot"} /\ lastOutcome \in Replies) =>
        /\ ret = lastOutcome
        /\ ~raised
        /\ Len(messages) >= 3
        /\ messages[Len(messages) - 1] = UserMsg(lastArg)
        /\ Last(messages) = AssistantMsg(lastOutcome)

\* a successful exchange of the windowed Chatbot during which the window
\* trimmed
C6_Witness ==
    /\ program = "custom"
    /\ max_history_tokens >= 2
    /\ lastOutcome \in Replies
    /\ Trimmed

\* C7: in the windowed Chatbot, a failed remote call never makes talk()
\* raise: talk returns the apology string, and the session takes a further
\* talk(), which again answers with the reply or with the apology.
C7_FailureReturnsApology ==
    program = "custom" =>
        /\ ~raised
        /\ lastOutcome \in Failures =>
              /\ ret = APOLOGY
              /\ Last(messages).role # "user"
        /\ (prevOutcome \in Failures /\ lastOutcome \in Replies) =>
              /\ ret = lastOutcome
              /\ Last(messages) = AssistantMsg(lastOutcome)

\* a malformed response, in a session that had already survived a failure
C7_Witness ==
    /\ program = "custom"
    /\ prevOutcome \in Failures
    /\ lastOutcome = "malformed"
    /\ ret = APOLOGY

\* C8: no operation retries: every talk() and every RAGChain.query() sends
\* at most one completion request, and no request is sent between calls.
C8_NoRetry ==
    /\ reqThisCall <= 1
    /\ requests <= calls
    /\ program \in {"custom", "chatbot"} => requests = calls
    /\ lastOutcome \in Failures => reqThisCall = 1

\* a RAGChain.query whose completion request failed, after an earlier query
C8_Witness ==
    /\ program = "rag"
    /\ calls >= 2
    /\ lastOp = "query"
    /\ lastOutcome \in Failures
    /\ requests = calls

\* C9: in the basic Chatbot, when the remote call of talk(m) fails the
\* session is back in its state of before the call, m rolled back.
C9_BasicRollback ==
    (program = "chatbot" /\ lastOutcome \in Failures) =>
        messages = before

\* C10: after add_documents(F) with F non-empty and then
\* clear_all_documents(), get_stats() reports count 0 and status 'empty' and
\* a similarity query returns no record.
C10_AddThenClearIsEmpty ==
    (/\ program = "rag"
     /\ prevMut = "add_documents"
     /\ lastMut = "clear_all_documents") =>
        /\ Stats(Len(store)).count = 0
        /\ Stats(Len(store)).status = "empty"
        /\ \A q \in Questions, k \in 1..MaxK :
              similarity_search(store, q, k) = <<>>
        /\ (lastOp = "get_stats" /\ result.status # "error") =>
              /\ result.count = 0
              /\ result.status = "empty"
        /\ lastOp = "retrieve" => result.docs = <<>>

\* a query right after two records were added and then cleared
C10_Witness ==
    /\ program = "rag"
    /\ prevMut = "add_documents"
    /\ lastMut = "clear_all_documents"
    /\ nextId >= 3
    /\ lastOp = "retrieve"
    /\ result.docs = <<>>

IsPrefix(s, t) == Len(s) <= Len(t) /\ SubSeq(t, 1, Len(s)) = s
Texts(s) == [i \in 1..Len(s) |-> s[i].text]
Min(a, b) == IF a <= b THEN a ELSE b
CompletedAdd(c) == c.op = "add_documents" /\ c.outcome = "ok"
CompletedClear(c) == c.op = "clear_all_documents" /\ c.outcome = "ok"

\* C11: add_documents(F) returns len(F) and raises the count get_stats()
\* reports by exactly len(F); it is not idempotent: adding the same F twice
\* leaves 2*len(F) additional records.
C11_AddCountsAndDuplicates ==
    (program = "rag" /\ CompletedAdd(lastCall)) =>
        LET F == lastCall.batch
            n == Len(lastCall.batch)
        IN
        /\ ~raised
        /\ result = [kind |-> "added", count |-> n]
        /\ Stats(Len(store)).count = Stats(Len(storeBefore)).count + n
        /\ Texts(SubSeq(store, Len(store) - n + 1, Len(store))) = F
        /\ Cardinality(Ids(store)) = Len(store)
        /\ (CompletedAdd(prevCall) /\ prevCall.batch = F) =>
              /\ Len(store) >= 2 * n
              /\ Texts(SubSeq(store, Len(store) - 2 * n + 1, Len(store)))
                    = F \o F

\* the same fragment list added twice in a row to a store that held a record
C11_Witness ==
    /\ program = "rag"
    /\ CompletedAdd(lastCall)
    /\ CompletedAdd(prevCall)
    /\ prevCall.batch = lastCall.batch
    /\ Len(store) = 2 * Len(lastCall.batch) + 1

\* C12: clear_all_documents() on an empty store issues no delete and returns
\* success=True, deleted_count=0, leaving the store empty; on n > 0 records it
\* returns success=True, deleted_count=n; a second clear right after a first
\* reports 0.
C12_ClearCounts ==
    (program = "rag" /\ CompletedClear(lastCall)) =>
        /\ result = [kind |-> "clear", success |-> TRUE,
                     deleted_count |-> Len(storeBefore)]
        /\ store = <<>>
        /\ lastCall.deleted <=> (storeBefore # <<>>)
        /\ CompletedClear(prevCall) =>
              /\ result.deleted_count = 0
              /\ ~lastCall.deleted

\* a second clear right after a clear that removed two records
C12_Witness ==
    /\ program = "rag"
    /\ CompletedClear(lastCall)
    /\ CompletedClear(prevCall)
    /\ nextId >= 3
    /\ result.deleted_count = 0

\* C13 as stated: add_documents, get_stats and clear_all_documents each catch
\* an exception of the persistence layer and return a failure result.
C13_NoOperationPropagates ==
    (/\ program = "rag"
     /\ lastCall.op \in {"add_documents", "get_stats", "clear_all_documents"}
     /\ lastCall.outcome = "error") =>
        ~raised

\* C13 as amended: get_stats and clear_all_documents catch an exception of
\* the persistence layer and return a failure result; add_documents prints it
\* and raises it again to its caller.
C13_StatsAndClearCatch_AddReraises ==
    (program = "rag" /\ lastCall.outcome = "error") =>
        /\ lastCall.op = "get_stats" =>
              /\ ~raised
              /\ result = [kind |-> "stats", count |-> 0, status |-> "error"]
        /\ lastCall.op = "clear_all_documents" =>
              /\ ~raised
              /\ result = [kind |-> "clear", success |-> FALSE,
                           deleted_count |-> 0]
        /\ lastCall.op = "add_documents" => raised

\* get_stats failing on a store that holds records
C13_Witness ==
    /\ program = "rag"
    /\ lastCall.op = "get_stats"
    /\ lastCall.outcome = "error"
    /\ store # <<>>
    /\ result.status = "error"

\* C16: a stored record is never modified and never removed on its own:
\* add_documents only adds, get_stats and the retriever leave the store as it
\* was, and clear_all_documents, the only removal, removes every record.
C16_WriteOnceBulkDelete ==
    program = "rag" =>
        /\ lastOp \in {"get_stats", "retrieve", "query"} => store = storeBefore
        /\ lastOp = "add_documents" => IsPrefix(storeBefore, store)
        /\ lastOp = "clear_all_documents" =>
              store = storeBefore \/ store = <<>>
        /\ store # <<>> => IsPrefix(storeBefore, store)

\* a clear that removed two records
C16_Witness ==
    /\ program = "rag"
    /\ lastOp = "clear_all_documents"
    /\ Len(storeBefore) >= 2
    /\ store = <<>>

\* C14: a similarity query with parameter k on a store of n records returns
\* exactly min(k, n) records and never fails because n < k; on an empty store
\* it returns the empty sequence, which consulta.py reports as 'no results'.
C14_QueryReturnsMinKN ==
    /\ (program = "rag" /\ lastCall.op = "retrieve") =>
          /\ ~raised
          /\ Len(result.docs) = Min(lastCall.k, Len(store))
    /\ (program = "consulta" /\ output \in {"results", "no_results"}) =>
          /\ Len(results) = Min(SCRIPT_K, Len(vectordb))
          /\ vectordb = <<>> => output = "no_results"
          /\ vectordb # <<>> => output = "results"

\* consulta.py run on a store that holds fewer than k records
C14_Witness ==
    /\ program = "consulta"
    /\ Len(vectordb) = 2
    /\ output = "results"
    /\ Len(results) = 2

\* C15: in consulta_filtrada.py, when a second positional argument is
\* supplied every returned record has metadata 'source' equal to it and at
\* most 3 records are returned; without it the search covers the whole store.
C15_FilterExactMatch ==
    (program = "consulta_filtrada" /\ output \in {"results", "no_results"}) =>
        /\ Len(results) <= SCRIPT_K
        /\ Len(argv) > 1 =>
              \A i \in 1..Len(results) : results[i].source = argv[2]
        /\ Len(argv) = 1 =>
              results = similarity_search(vectordb, argv[1], SCRIPT_K)

\* ------------------------------------------- properties of the documents
Supported(path) ==
    \/ EndsWith(path, <<".", "t", "x", "t">>)
    \/ EndsWith(path, <<".", "p", "d", "f">>)

\* the text holds nothing but blanks and line breaks (or nothing at all)
IsBlank(text) == \A i \in 1..Len(text) : text[i] \in Whitespace

\* f is text without the blanks and line breaks at its two ends
IsStripOf(f, text) ==
    /\ f # <<>>
    /\ f[1] \notin Whitespace
    /\ f[Len(f)] \notin Whitespace
    /\ \E i \in 1..Len(text) :
          /\ i + Len(f) - 1 <= Len(text)
          /\ SubSeq(text, i, i + Len(f) - 1) = f
          /\ IsBlank(SubSeq(text, 1, i - 1))
          /\ IsBlank(SubSeq(text, i + Len(f), Len(text)))

\* a splitting has completed and its documents and fragments are at hand
Splitted ==
    /\ procCall.op \in {"ingesta", "split_documents"}
    /\ procResult.kind = "splits"

\* the last n characters of f are the first n characters of g
SharesExactly(f, g, n) ==
    /\ Len(f) >= n
    /\ Len(g) >= n
    /\ SubSeq(f, Len(f) - n + 1, Len(f)) = SubSeq(g, 1, n)

\* C17: load_file(path) fails with an error, without invoking any loader and
\* without returning documents, for every path whose extension is neither
\* .txt nor .pdf; and an error the loader raises while reading a supported
\* file is propagated to the caller of load_file.
C17_UnsupportedFailsLoaderErrorPropagates ==
    (program = "processor" /\ procCall.op = "load_file") =>
        /\ ~Supported(procCall.arg) =>
              /\ procResult.raised
              /\ procResult.error = "ValueError"
              /\ procResult.loader = NoValue
              /\ procResult.documents = <<>>
        /\ (Supported(procCall.arg) /\ ~fs[procCall.arg].readable) =>
              /\ procResult.raised
              /\ procResult.error = "IOError"
              /\ procResult.documents = <<>>
        /\ (Supported(procCall.arg) /\ fs[procCall.arg].readable) =>
              /\ ~procResult.raised
              /\ Len(procResult.documents) = Len(fs[procCall.arg].texts)

\* load_file refused a readable file whose extension is not supported
C17_Witness ==
    /\ program = "processor"
    /\ procCall.op = "load_file"
    /\ procCall.arg = PathDoc
    /\ fs[PathDoc].readable
    /\ procResult.raised
    /\ procResult.loader = NoValue

\* C18: process_files returns success=True only if everything succeeded:
\* whenever the result has success=True, every input file was loaded and
\* failed_files is empty.
C18_SuccessMeansNothingFailed ==
    (program = "processor" /\ procCall.op = "process_files"
        /\ procResult.success) =>
        /\ procResult.failed_files = <<>>
        /\ \A i \in 1..Len(procCall.arg) :
              ~load_file(procCall.arg[i], fs).raised

\* C19 as stated: every document shorter than the chunk size, an empty or
\* whitespace-only one included, yields exactly one fragment, whose text
\* equals the text of the document.
C19_ShortDocumentIsOneEqualFragment ==
    (Splitted /\ \A i \in 1..Len(procResult.documents) :
                    Len(procResult.documents[i].page_content) < chunk_size) =>
        /\ Len(procResult.splits) = Len(procResult.documents)
        /\ \A i \in 1..Len(procResult.documents) :
              procResult.splits[i] = procResult.documents[i]

\* C19, amended: every document shorter than the chunk size that holds a
\* character other than blanks and line breaks yields exactly one fragment,
\* whose text is the text of the document without the blanks and line breaks
\* at its two ends; an empty or whitespace-only document yields no fragment.
C19_ShortDocumentIsOneStrippedFragment ==
    (Splitted /\ \A i \in 1..Len(procResult.documents) :
                    Len(procResult.documents[i].page_content) < chunk_size) =>
        LET kept == SelectSeq(procResult.documents,
                              LAMBDA doc : ~IsBlank(doc.page_content))
        IN /\ Len(procResult.splits) = Len(kept)
           /\ \A i \in 1..Len(kept) :
                 /\ IsStripOf(procResult.splits[i].page_content,
                              kept[i].page_content)
                 /\ procResult.splits[i].source = kept[i].source

\* a short document with a blank at its start became one shorter fragment
C19_Witness ==
    /\ program = "ingesta"
    /\ Splitted
    /\ Len(procResult.documents) = 1
    /\ procResult.documents[1].page_content = <<" ", "a", "b">>
    /\ chunk_size = 4
    /\ Len(procResult.splits) = 1
    /\ procResult.splits[1].page_content = <<"a", "b">>

\* C20 as stated: for chunk_overlap < chunk_size and every document split
\* into two or more fragments, each pair of adjacent fragments shares a
\* suffix/prefix of exactly chunk_overlap characters.
C20_AdjacentFragmentsShareOverlap ==
    (Splitted /\ Len(procResult.documents) = 1
        /\ Len(procResult.splits) >= 2) =>
        \A i \in 1..(Len(procResult.splits) - 1) :
            SharesExactly(procResult.splits[i].page_content,
                          procResult.splits[i + 1].page_content,
                          chunk_overlap)

\* C20, amended: for chunk_overlap < chunk_size and every document without
\* blanks and line breaks that is split into two or more fragments, each
\* pair of adjacent fragments shares a suffix/prefix of exactly chunk_overlap
\* characters, and every fragment but the last has chunk_size characters.
C20_SeparatorFreeFragmentsShareOverlap ==
    (Splitted /\ Len(procResult.documents) = 1
        /\ Len(procResult.splits) >= 2
        /\ \A j \in 1..Len(procResult.documents[1].page_content) :
              procResult.documents[1].page_content[j] \notin Whitespace) =>
        \A i \in 1..(Len(procResult.splits) - 1) :
            /\ Len(procResult.splits[i].page_content) = chunk_size
            /\ SharesExactly(procResult.splits[i].page_content,
                             procResult.splits[i + 1].page_content,
                             chunk_overlap)

\* a document without separators cut into three fragments that overlap
C20_Witness ==
    /\ program = "ingesta"
    /\ Splitted
    /\ chunk_size = 3
    /\ chunk_overlap = 1
    /\ procResult.documents[1].page_content = <<"a", "b", "a", "a", "b">>
    /\ Len(procResult.splits) = 2
    /\ procResult.splits[1].page_content = <<"a", "b", "a">>
    /\ procResult.splits[2].page_content = <<"a", "a", "b">>

\* ------------------------------------------------ properties of the chat
\* a chat handler has run and asked the chain
Asked == chatCall.op # NoValue /\ chatCall.queried

\* C21: RAGChain.query raises an exception to its caller when retrieval or
\* generation fails, so that the error branch of handle_chat_message is the
\* one that puts the error reply into the chat history.
C21_QueryRaisesToHandler ==
    (program = "chat" /\ Asked /\ chatCall.outcome \notin Replies) =>
        /\ chatCall.query_raised
        /\ chatCall.branch = "except"

\* C22: a RAG answer is a single-turn request: for two runs with the same
\* question, the same k and the same store contents the prompt sent to the
\* completion backend is identical whatever the chat_history is;
\* chat_history never flows into the request.
C22_PromptIgnoresHistory ==
    (program \in {"chat", "app"} /\ Asked /\ reqThisCall = 1) =>
        /\ prompt = firstPrompt[chatCall.message]
        /\ prompt.question = chatCall.message

\* a question asked again after another question had been answered
C22_Witness ==
    /\ program = "chat"
    /\ Asked
    /\ reqThisCall = 1
    /\ Len(historyBefore) = 2
    /\ historyBefore[1][1] = chatCall.message
    /\ historyBefore[2][1] # chatCall.message
    /\ prompt = firstPrompt[chatCall.message]

\* C23: when retrieval returns zero fragments, RAGChain.query and
\* respond_chat still fill the template with an empty context block and
\* still send exactly one request to the completion backend; the
\* orchestrator never answers with a refusal of its own.
C23_EmptyContextStillSent ==
    /\ (program \in {"chat", "app"} /\ Asked /\ chatCall.outcome # "error"
          /\ store = <<>>) =>
          /\ prompt.kind = "prompt"
          /\ prompt.context = <<>>
          /\ prompt.question = chatCall.message
          /\ reqThisCall = 1
          /\ chatCall.outcome \in Replies => ret = chatCall.outcome
    /\ (program = "rag" /\ lastCall.op = "query" /\ lastCall.outcome # "error"
          /\ store = <<>>) =>
          /\ prompt.kind = "prompt"
          /\ prompt.context = <<>>
          /\ reqThisCall = 1

\* respond_chat asked on an empty store and the backend replied
C23_Witness ==
    /\ program = "app"
    /\ Asked
    /\ store = <<>>
    /\ chatCall.outcome \in Replies
    /\ prompt.kind = "prompt"
    /\ prompt.context = <<>>
    /\ reqThisCall = 1

\* C26: handle_chat_message returns chat_history unchanged and makes no RAG
\* call for an empty or whitespace-only message; for every other message it
\* appends exactly one (message, reply) pair, whether the RAG call succeeded
\* or failed, and it never raises.
C26_ChatHistoryFrame ==
    (program = "chat" /\ chatCall.op = "handle_chat_message") =>
        /\ ~raised
        /\ IsBlank(Chars(chatCall.message)) =>
              /\ chat_history = historyBefore
              /\ ~chatCall.queried
              /\ chatCall.requests = 0
              /\ ret = NoValue
        /\ ~IsBlank(Chars(chatCall.message)) =>
              /\ chatCall.queried
              /\ chat_history =
                    Append(historyBefore, <<chatCall.message, ret>>)
              /\ ret \in Replies \cup {QUERY_ERROR}

\* a blank message after an exchange, and the history stayed as it was
C26_Witness ==
    /\ program = "chat"
    /\ chatCall.op = "handle_chat_message"
    /\ chatCall.message = " "
    /\ historyBefore # <<>>
    /\ chat_history = historyBefore
    /\ chatCall.requests = 0

\* ------------------------------------------------- properties of the loops
Loops == {"custom", "chatbot", "gemini"}

\* C24 as stated: each read-eval-print loop terminates when, and only when,
\* the line read is the literal command "salir"; no remote call is made for
\* the terminating line, and every other line read results in exactly one
\* talk() call before the next line is read.
C24_EndsOnlyOnSalir ==
    program \in Loops =>
        /\ ~Running <=> (loop = "ended" /\ lastLine = "salir")
        /\ requests = calls
        /\ calls > 0 => lastArg # "salir"

\* C24, amended: each loop ends at the first line that equals "salir" when
\* its letters are put in lower case, without a talk() call or a remote call
\* for that line; every other line read results in exactly one talk() call,
\* with one remote call, before the next line is read; the loop of custom.py
\* ends in no other way, while the loops of chatbot.py and chatbot_gemini.py
\* end as well when that talk() call raises.
C24_EndsOnSalirInAnyCase ==
    program \in Loops =>
        /\ loop = "ended" => lastLine \in {"salir", "SALIR"}
        /\ requests = calls
        /\ calls > 0 => lastArg \in UserTexts
        /\ raised => (program # "custom" /\ lastOutcome \in Failures)
        /\ (program # "custom" /\ calls > 0 /\ lastOutcome \in Failures) =>
              raised
        /\ ~Running <=> (loop = "ended" \/ raised)

\* two lines were answered, then SALIR ended the loop
C24_Witness ==
    /\ program = "gemini"
    /\ loop = "ended"
    /\ lastLine = "SALIR"
    /\ calls = 2
    /\ requests = 2

\* the positions of file_paths whose file load_file could not load
FailedAt(file_paths) ==
    {i \in 1..Len(file_paths) : load_file(file_paths[i], fs).raised}

RECURSIVE LoadedFrom(_, _)
\* the documents of the files from position i on that load_file could load
LoadedFrom(file_paths, i) ==
    IF i > Len(file_paths) THEN <<>>
    ELSE (IF i \in FailedAt(file_paths) THEN <<>>
          ELSE load_file(file_paths[i], fs).documents)
            \o LoadedFrom(file_paths, i + 1)

\* C25: load_multiple_files partitions its input: every entry of file_paths
\* either contributes all its loaded documents to the returned list, in
\* input order, or appears exactly once in failed_files, never both; a file
\* that fails never prevents the files after it from being loaded, and the
\* call itself never raises.
C25_LoadPartitionsInput ==
    (program = "processor" /\ procCall.op = "load_multiple_files") =>
        LET file_paths == procCall.arg
            failed == FailedAt(file_paths)
        IN /\ procResult.failed_files =
                 SelectSeq(file_paths,
                           LAMBDA path : load_file(path, fs).raised)
           /\ Len(procResult.failed_files) = Cardinality(failed)
           /\ procResult.all_documents = LoadedFrom(file_paths, 1)
           /\ \A j \in 1..Len(procResult.all_documents) :
                 \A k \in 1..Len(procResult.failed_files) :
                     procResult.all_documents[j].source
                        # procResult.failed_files[k]

\* the first file failed and the file after it was loaded all the same
C25_Witness ==
    /\ program = "processor"
    /\ procCall.op = "load_multiple_files"
    /\ procCall.arg = <<PathDoc, PathTxt>>
    /\ procResult.failed_files = <<PathDoc>>
    /\ Len(procResult.all_documents) = 1
    /\ procResult.all_documents[1].source = PathTxt

\* C27: handle_file_upload leaves the vector store unchanged whenever it
\* reports a failure: with an empty file list or when process_files returns
\* success=False, add_documents is never called; when it reports success,
\* the record count shown equals the count before the call plus the
\* split_count it reports.
C27_UploadFrame ==
    (program = "upload" /\ uploadCall.op = "handle_file_upload") =>
        /\ uploadCall.report # "success" => store = storeBefore
        /\ (uploadCall.file_list = <<>> \/ ~uploadCall.processed) =>
              ~uploadCall.add_called
        /\ uploadCall.report = "success" =>
              uploadCall.count = Len(storeBefore) + uploadCall.split_count

\* C28: for the windowed Chatbot, for every max_history >= 0 (max_history = 0
\* included) and after any sequence of talk() calls, the history contains
\* exactly one message with role system.
C28_OneSystemMessage ==
    program = "custom" =>
        Cardinality({i \in 1..Len(messages) : messages[i].role = "system"}) = 1

\* C29: when the handlers for file upload and for clearing the database run
\* interleaved, a clear that returns success=True with deleted_count=c has
\* removed exactly c records and the store is empty when it returns.
C29_InterleavedClearIsExact ==
    (program = "gradio" /\ clearPc = "returned" /\ clearResult.success) =>
        /\ clearRemoved = clearResult.deleted_count
        /\ store = <<>>

\* C30: test_connection() releases what it opened on every path and never
\* raises: whenever connect() succeeded, the connection is closed before the
\* function returns, including when a step between connect() and the
\* creation of the cursor, or the query itself, fails.
C30_ConnectionAlwaysClosed ==
    (program = "aprueba" /\ connection.run) =>
        /\ connection.raised = NoValue
        /\ (connection.opened /\ connection.alive) => connection.closed

====
